---- MODULE Spec2Model ----
(***************************************************************************)
(* generate_script (utils.py): one invocation as a state machine.          *)
(*                                                                         *)
(* Texts are sequences of one-character strings.  A Python string literal  *)
(* of the source is one token (a single element naming the literal), so    *)
(* two different literals are two different texts.  Python's None is the   *)
(* text None, the empty string is << >>.                                   *)
(* video_length is a float that is a multiple of 1/VLUnit minute; for      *)
(* these values the double product video_length * 200 is exact.            *)
(* creativity is a float in tenths.                                        *)
(***************************************************************************)
EXTENDS Integers, Sequences, FiniteSets, TLC

VARIABLES
    subject,        \* argument subject
    video_length,   \* argument video_length, in units of 1/VLUnit minute
    creativity,     \* argument creativity, in tenths
    api_key_arg,    \* argument api_key as passed by the caller
    env_key,        \* os.environ's DEEPSEEK_API_KEY (None when not set)
    api_key,        \* local api_key after line 23
    envRead,        \* whether os.getenv was evaluated at line 23
    model,          \* the ChatOpenAI object of line 65
    title,          \* local title
    search_result,  \* local search_result
    word_count,     \* local word_count
    script,         \* local script
    pc,             \* position of the invocation
    calls,          \* outbound calls issued so far, in order
    inflight,       \* indices (in calls) of the calls awaiting their response
    rawTitle,       \* .content of the title call's response
    rawScript,      \* .content of the script call's response
    wikiOutcome,    \* what wikipedia_api.run did: returned a text or raised
    result,         \* the returned tuple (<< >> while nothing is returned)
    error           \* the exception the invocation raised

vars == <<subject, video_length, creativity, api_key_arg, env_key, api_key,
          envRead, model, title, search_result, word_count, script, pc, calls,
          inflight, rawTitle, rawScript, wikiOutcome, result, error>>

----------------------------------------------------------------------------
(* Bounds *)

MaxLen == 3
MaxWikiLen == 2
MaxMsgLen == 51
MaxVideoLength == 3
MaxWordCountInput == 80
VLUnit == 32

(* Program constants *)

WordsPerMinute == 200
TruncLen == 50

----------------------------------------------------------------------------
(* Values *)

None == <<"<None>">>

Chars == {"a", " "}

Whitespace == {" ", "\n", "\t", "\r"}

TextsUpTo(n) == UNION {[1..k -> Chars] : k \in 0..n}

Texts == TextsUpTo(MaxLen)

WikiTexts == TextsUpTo(MaxWikiLen)

SampleTexts == {<<" ", "a">>}

Subjects == {<<"s">>}

Creativities == {7, 15}

Keys == {None, << >>, <<"k">>}

EnvKeys == {None, << >>, <<"e">>}

\* str(e): TruncLen-1 .. MaxMsgLen characters (or none), "x" up to position
\* TruncLen and "y" after it
ExcMsg(n) == [i \in 1..n |-> IF i <= TruncLen THEN "x" ELSE "y"]

ExcMsgs == {ExcMsg(n) : n \in {0} \cup ((TruncLen - 1)..MaxMsgLen)}

ExcClasses == {"ConnectionError", "TimeoutError", "Exception"}

Exceptions == [kind : {"raise"}, cls : ExcClasses, text : ExcMsgs]

NoOutcome == [kind |-> "none", cls |-> "", text |-> None]

NoModel == [openai_api_key |-> None, temperature |-> -1]

NoError == [kind |-> "", stage |-> ""]

NoPrompt == [subject |-> None, title |-> None, duration |-> -1,
             word_count |-> -1, wikipedia_search |-> None]

----------------------------------------------------------------------------
(* Pure functions *)

\* Python truthiness of Optional[str]
Truthy(s) == s /= None /\ s /= << >>

\* api_key or os.getenv("DEEPSEEK_API_KEY")
ResolveCredential_EnvFirst(k, e) == IF Truthy(e) THEN e ELSE k

ResolveCredential(k, e) == IF Truthy(k) THEN k ELSE e

\* `or` evaluates its right operand only when the left one is falsy
EnvConsulted(k) == ~Truthy(k)

\* not api_key
CredentialMissing_Never(c) == FALSE

CredentialMissing(c) == ~Truthy(c)

IsSpace(c) == c \in Whitespace

RECURSIVE LStrip(_)
LStrip(s) == IF s /= << >> /\ IsSpace(Head(s)) THEN LStrip(Tail(s)) ELSE s

RECURSIVE RStrip(_)
RStrip(s) ==
    IF s /= << >> /\ IsSpace(s[Len(s)]) THEN RStrip(SubSeq(s, 1, Len(s) - 1)) ELSE s

\* str.strip()
Strip_LeftOnly(s) == LStrip(s)

Strip(s) == RStrip(LStrip(s))

\* s[:n]
Take(s, n) == SubSeq(s, 1, IF Len(s) < n THEN Len(s) ELSE n)

MsgNotFound == <<"wikipedia found no detailed information, content below is based on common knowledge">>

MsgConnection == <<"wikipedia network connection failed, content below is based on common knowledge">>

MsgTimeout == <<"wikipedia search timed out, content below is based on common knowledge">>

MsgOtherPrefix == <<"wikipedia search error: ">>

MsgOtherSuffix == <<"..., content below is based on common knowledge">>

MsgOther(m) == MsgOtherPrefix \o Take(m, TruncLen) \o MsgOtherSuffix

\* if not search_result.strip(): search_result = <not found>
OnReturn_Raw(text) == text

OnReturn(text) == IF Strip(text) = << >> THEN MsgNotFound ELSE text

\* the except clauses, in their order
OnRaise_GenericOnly(e) == MsgOther(e.text)

OnRaise(e) ==
    IF e.cls = "ConnectionError" THEN MsgConnection
    ELSE IF e.cls = "TimeoutError" THEN MsgTimeout
    ELSE MsgOther(e.text)

\* Python's round(p / d) for p >= 0, d > 0: nearest integer, a tie to the even one
PyRound(p, d) ==
    LET q == p \div d
        r == p % d
    IN  IF 2 * r < d THEN q
        ELSE IF 2 * r > d THEN q + 1
        ELSE IF q % 2 = 0 THEN q ELSE q + 1

\* int(video_length * 200): truncation (video_length is positive)
WordCount_Round(vl) == PyRound(vl * WordsPerMinute, VLUnit)

WordCount(vl) == (vl * WordsPerMinute) \div VLUnit

\* the order of the three external calls in the function body
NextPos_ResearchFirst(p) ==
    CASE p = "check" -> "research"
      [] p = "research" -> "title"
      [] p = "title" -> "script"
      [] OTHER -> "return"

NextPos(p) ==
    CASE p = "check" -> "title"
      [] p = "title" -> "research"
      [] p = "research" -> "script"
      [] OTHER -> "return"

LlmCall(stage, prompt) ==
    [provider |-> "llm", stage |-> stage, credential |-> model.openai_api_key,
     temperature |-> model.temperature, query |-> None, prompt |-> prompt]

WikiCall(q) ==
    [provider |-> "wikipedia", stage |-> "research", credential |-> None,
     temperature |-> -1, query |-> q, prompt |-> NoPrompt]

TitlePrompt == [NoPrompt EXCEPT !.subject = subject]

ScriptPrompt(wc) ==
    [NoPrompt EXCEPT !.title = title, !.duration = video_length,
                     !.word_count = wc, !.wikipedia_search = search_result]

----------------------------------------------------------------------------
(* The invocation *)

InitLocals ==
    /\ api_key = None
    /\ envRead = FALSE
    /\ model = NoModel
    /\ title = None
    /\ search_result = None
    /\ word_count = -1
    /\ script = None
    /\ pc = "check"
    /\ calls = << >>
    /\ inflight = {}
    /\ rawTitle = None
    /\ rawScript = None
    /\ wikiOutcome = NoOutcome
    /\ result = << >>
    /\ error = NoError

Init ==
    /\ subject \in Subjects
    /\ video_length \in 1..MaxVideoLength
    /\ creativity \in Creativities
    /\ api_key_arg \in Keys
    /\ env_key \in EnvKeys
    /\ InitLocals

args == <<subject, video_length, creativity, api_key_arg, env_key>>

\* lines 23-25: no credential
CheckCredentialFail ==
    /\ pc = "check"
    /\ CredentialMissing(ResolveCredential(api_key_arg, env_key))
    /\ api_key' = ResolveCredential(api_key_arg, env_key)
    /\ envRead' = EnvConsulted(api_key_arg)
    /\ error' = [kind |-> "ValueError", stage |-> "check"]
    /\ pc' = "raised"
    /\ UNCHANGED <<args, model, title, search_result, word_count, script, calls,
                   inflight, rawTitle, rawScript, wikiOutcome, result>>

\* lines 23-72: credential resolved, templates and model built
CheckCredentialOk ==
    /\ pc = "check"
    /\ ~CredentialMissing(ResolveCredential(api_key_arg, env_key))
    /\ api_key' = ResolveCredential(api_key_arg, env_key)
    /\ envRead' = EnvConsulted(api_key_arg)
    /\ model' = [openai_api_key |-> ResolveCredential(api_key_arg, env_key),
                 temperature |-> creativity]
    /\ pc' = NextPos("check")
    /\ UNCHANGED <<args, title, search_result, word_count, script, calls,
                   inflight, rawTitle, rawScript, wikiOutcome, result, error>>

\* lines 75-76: title_chain.invoke is issued
IssueTitle ==
    /\ pc = "title"
    /\ calls' = Append(calls, LlmCall("title", TitlePrompt))
    /\ inflight' = inflight \cup {Len(calls) + 1}
    /\ pc' = "title_wait"
    /\ UNCHANGED <<args, api_key, envRead, model, title, search_result, word_count,
                   script, rawTitle, rawScript, wikiOutcome, result, error>>

\* line 76: the call returns; .content.strip()
TitleReturn(S) ==
    /\ pc = "title_wait"
    /\ \E raw \in S :
        /\ rawTitle' = raw
        /\ title' = Strip(raw)
    /\ inflight' = {}
    /\ pc' = NextPos("title")
    /\ UNCHANGED <<args, api_key, envRead, model, search_result, word_count, script,
                   calls, rawScript, wikiOutcome, result, error>>

\* line 76: the call raises; nothing catches it
TitleFail_Fallback ==
    /\ pc = "title_wait"
    /\ title' = << >>
    /\ inflight' = {}
    /\ pc' = NextPos("title")
    /\ UNCHANGED <<args, api_key, envRead, model, search_result, word_count, script,
                   calls, rawTitle, rawScript, wikiOutcome, result, error>>

TitleFail_Retry ==
    /\ pc = "title_wait"
    /\ inflight' = {}
    /\ pc' = IF Len(calls) < 2 THEN "title" ELSE "raised"
    /\ error' = IF Len(calls) < 2 THEN error
                ELSE [kind |-> "ProviderError", stage |-> "title"]
    /\ UNCHANGED <<args, api_key, envRead, model, title, search_result, word_count,
                   script, calls, rawTitle, rawScript, wikiOutcome, result>>

TitleFail ==
    /\ pc = "title_wait"
    /\ error' = [kind |-> "ProviderError", stage |-> "title"]
    /\ inflight' = {}
    /\ pc' = "raised"
    /\ UNCHANGED <<args, api_key, envRead, model, title, search_result, word_count,
                   script, calls, rawTitle, rawScript, wikiOutcome, result>>

\* lines 79-88: search_result = ""; wikipedia_api.run(subject) is issued
IssueResearch ==
    /\ pc = "research"
    /\ search_result' = << >>
    /\ calls' = Append(calls, WikiCall(subject))
    /\ inflight' = inflight \cup {Len(calls) + 1}
    /\ pc' = "research_wait"
    /\ UNCHANGED <<args, api_key, envRead, model, title, word_count, script,
                   rawTitle, rawScript, wikiOutcome, result, error>>

\* lines 88-91: run returns a text
ResearchReturn(S) ==
    /\ pc = "research_wait"
    /\ \E text \in S :
        /\ wikiOutcome' = [kind |-> "ok", cls |-> "", text |-> text]
        /\ search_result' = OnReturn(text)
    /\ inflight' = {}
    /\ pc' = NextPos("research")
    /\ UNCHANGED <<args, api_key, envRead, model, title, word_count, script, calls,
                   rawTitle, rawScript, result, error>>

\* lines 92-98: run raises; an except clause sets search_result
ResearchRaise_Propagate ==
    /\ pc = "research_wait"
    /\ \E e \in Exceptions :
        /\ wikiOutcome' = e
        /\ error' = [kind |-> e.cls, stage |-> "research"]
    /\ inflight' = {}
    /\ pc' = "raised"
    /\ UNCHANGED <<args, api_key, envRead, model, title, search_result, word_count,
                   script, calls, rawTitle, rawScript, result>>

ResearchRaise ==
    /\ pc = "research_wait"
    /\ \E e \in Exceptions :
        /\ wikiOutcome' = e
        /\ search_result' = OnRaise(e)
    /\ inflight' = {}
    /\ pc' = NextPos("research")
    /\ UNCHANGED <<args, api_key, envRead, model, title, word_count, script, calls,
                   rawTitle, rawScript, result, error>>

\* lines 101-108: word_count; script_chain.invoke is issued
IssueScript ==
    /\ pc = "script"
    /\ word_count' = WordCount(video_length)
    /\ calls' = Append(calls, LlmCall("script", ScriptPrompt(WordCount(video_length))))
    /\ inflight' = inflight \cup {Len(calls) + 1}
    /\ pc' = "script_wait"
    /\ UNCHANGED <<args, api_key, envRead, model, title, search_result, script,
                   rawTitle, rawScript, wikiOutcome, result, error>>

\* lines 108-110: the call returns; .content.strip(); return
ScriptReturn(S) ==
    /\ pc = "script_wait"
    /\ \E raw \in S :
        /\ rawScript' = raw
        /\ script' = Strip(raw)
        /\ result' = <<search_result, title, Strip(raw)>>
    /\ inflight' = {}
    /\ pc' = "returned"
    /\ UNCHANGED <<args, api_key, envRead, model, title, search_result, word_count,
                   calls, rawTitle, wikiOutcome, error>>

\* line 108: the call raises; nothing catches it
ScriptFail ==
    /\ pc = "script_wait"
    /\ error' = [kind |-> "ProviderError", stage |-> "script"]
    /\ inflight' = {}
    /\ pc' = "raised"
    /\ UNCHANGED <<args, api_key, envRead, model, title, search_result, word_count,
                   script, calls, rawTitle, rawScript, wikiOutcome, result>>

Next ==
    \/ CheckCredentialFail
    \/ CheckCredentialOk
    \/ IssueTitle
    \/ TitleReturn(Texts)
    \/ TitleFail
    \/ IssueResearch
    \/ ResearchReturn(WikiTexts)
    \/ ResearchRaise
    \/ IssueScript
    \/ ScriptReturn(Texts)
    \/ ScriptFail

Spec == Init /\ [][Next]_vars

\* The same program with one credential, one creativity, one sample response per
\* provider call, and video_length over a wide range.
InitWordCount ==
    /\ subject \in Subjects
    /\ video_length \in 1..MaxWordCountInput
    /\ creativity = 7
    /\ api_key_arg = <<"k">>
    /\ env_key = None
    /\ InitLocals

NextWordCount ==
    \/ CheckCredentialOk
    \/ IssueTitle
    \/ TitleReturn(SampleTexts)
    \/ IssueResearch
    \/ ResearchReturn(SampleTexts)
    \/ IssueScript
    \/ ScriptReturn(SampleTexts)

SpecWordCount == InitWordCount /\ [][NextWordCount]_vars

----------------------------------------------------------------------------
(* Vocabulary of the properties *)

\* the exception of line 25
ConfigurationError == "ValueError"

\* the exception a failed chain.invoke lets through (lines 76, 103-108)
GenerationError == "ProviderError"

Finished == pc \in {"returned", "raised"}

CallsOf(provider) == {i \in 1..Len(calls) : calls[i].provider = provider}

CallsAt(stage) == {i \in 1..Len(calls) : calls[i].stage = stage}

AllSpace(s) == \A i \in 1..Len(s) : s[i] \in Whitespace

\* t is raw without a leading and a trailing run of whitespace, and has no
\* whitespace at either end
IsTrimOf(t, raw) ==
    /\ t = << >> \/ (t[1] \notin Whitespace /\ t[Len(t)] \notin Whitespace)
    /\ \E i \in 0..Len(raw) :
        /\ i + Len(t) <= Len(raw)
        /\ AllSpace(SubSeq(raw, 1, i))
        /\ SubSeq(raw, i + 1, i + Len(t)) = t
        /\ AllSpace(SubSeq(raw, i + Len(t) + 1, Len(raw)))

ResearchFailed ==
    \/ wikiOutcome.kind = "raise"
    \/ wikiOutcome.kind = "ok" /\ AllSpace(wikiOutcome.text)

\* the fallback text of each failure category, as lines 91-98 spell them
FallbackOfCategory ==
    IF wikiOutcome.kind = "ok" THEN MsgNotFound
    ELSE IF wikiOutcome.cls = "ConnectionError" THEN MsgConnection
    ELSE IF wikiOutcome.cls = "TimeoutError" THEN MsgTimeout
    ELSE MsgOtherPrefix
         \o [i \in 1..(IF Len(wikiOutcome.text) < TruncLen
                       THEN Len(wikiOutcome.text) ELSE TruncLen)
               |-> wikiOutcome.text[i]]
         \o MsgOtherSuffix

FixedFallbacks == {MsgNotFound, MsgConnection, MsgTimeout}

----------------------------------------------------------------------------
(* C1 *)

\* C1: with no api_key argument and DEEPSEEK_API_KEY not set, the invocation
\* ends by raising the configuration error (ValueError), and no call to the
\* language model or to the encyclopedia is ever issued.
C1_MissingCredentialFailsFast ==
    (api_key_arg = None /\ env_key = None) =>
        /\ calls = << >>
        /\ inflight = {}
        /\ pc \in {"check", "raised"}
        /\ pc = "raised" =>
            /\ error = [kind |-> ConfigurationError, stage |-> "check"]
            /\ result = << >>

C1_Witness == api_key_arg = None /\ env_key = None /\ pc = "raised"

(* C2 *)

\* C2: when the research lookup fails (blank result, connection error, timeout,
\* any other exception) the invocation does not raise because of it: it goes on,
\* research_text is the fallback text of that failure category, the script prompt
\* carries that same text, and the returned tuple's first element is that text.
C2_ResearchFailureDegrades ==
    ResearchFailed =>
        /\ search_result = FallbackOfCategory
        /\ pc = "raised" => error = [kind |-> GenerationError, stage |-> "script"]
        /\ \A i \in CallsAt("script") :
            calls[i].prompt.wikipedia_search = FallbackOfCategory
        /\ pc = "returned" => result[1] = FallbackOfCategory

C2_Witness ==
    /\ pc = "returned"
    /\ wikiOutcome.kind = "raise"
    /\ wikiOutcome.cls = "TimeoutError"
    /\ result[1] = MsgTimeout
    /\ calls[3].prompt.wikipedia_search = MsgTimeout

(* C3 *)

\* C3 as stated: every returned research_text is the provider's summary or one
\* of three fixed fallback strings.
C3_Original ==
    pc = "returned" =>
        \/ wikiOutcome.kind = "ok" /\ result[1] = wikiOutcome.text
        \/ result[1] \in FixedFallbacks

\* C3 amended: every returned research_text is the provider's summary, unchanged
\* (when the lookup returned a text that is not all whitespace), or one of the
\* three fixed strings (nothing found, connection failure, timeout), or, after
\* any other exception, a fixed prefix, the first 50 characters of the
\* exception's message and a fixed suffix.
C3_ResearchTextShape ==
    pc = "returned" =>
        \/ /\ wikiOutcome.kind = "ok"
           /\ ~AllSpace(wikiOutcome.text)
           /\ result[1] = wikiOutcome.text
        \/ /\ result[1] \in FixedFallbacks
           /\ wikiOutcome.kind = "raise" => wikiOutcome.cls /= "Exception"
        \/ /\ wikiOutcome.kind = "raise"
           /\ wikiOutcome.cls = "Exception"
           /\ \E n \in 0..TruncLen :
                /\ n <= Len(wikiOutcome.text)
                /\ n = TruncLen \/ n = Len(wikiOutcome.text)
                /\ result[1] = MsgOtherPrefix \o SubSeq(wikiOutcome.text, 1, n)
                                   \o MsgOtherSuffix

C3_Witness ==
    /\ pc = "returned"
    /\ wikiOutcome.kind = "raise"
    /\ wikiOutcome.cls = "Exception"
    /\ Len(wikiOutcome.text) > TruncLen
    /\ Len(result[1]) = TruncLen + 2

(* C4 *)

\* C4: an invocation that has returned delivered the triple (research_text,
\* title, script) with every component assigned and raised nothing; one that has
\* raised delivered nothing; before either, nothing is delivered; and the
\* exception of a raising invocation never comes from the research step.
C4_AllOrNothing ==
    /\ pc = "returned" =>
        /\ result = <<search_result, title, script>>
        /\ \A i \in 1..3 : result[i] /= None
        /\ error = NoError
    /\ pc = "raised" =>
        /\ result = << >>
        /\ error /= NoError
        /\ error.stage \in {"check", "title", "script"}
    /\ ~Finished => (result = << >> /\ error = NoError)
    /\ Len(result) \in {0, 3}

C4_Witness == pc = "returned" /\ wikiOutcome.kind = "raise" /\ Len(result) = 3

(* C5 *)

\* C5 as stated: the word_count of the script prompt is round(video_length * 200).
C5_Original ==
    \A i \in CallsAt("script") :
        calls[i].prompt.word_count = PyRound(video_length * WordsPerMinute, VLUnit)

\* C5 amended: the word_count of the script prompt is video_length * 200 with its
\* fraction cut off (the largest integer not above the product); 1.0 gives 200
\* and 2.5 gives 500.
C5_WordCountTruncates ==
    \A i \in CallsAt("script") :
        LET wc == calls[i].prompt.word_count
        IN  /\ wc = word_count
            /\ wc * VLUnit <= video_length * WordsPerMinute
            /\ video_length * WordsPerMinute < (wc + 1) * VLUnit
            /\ video_length = VLUnit => wc = 200
            /\ 2 * video_length = 5 * VLUnit => wc = 500

C5_Witness ==
    /\ CallsAt("script") /= {}
    /\ 2 * ((video_length * WordsPerMinute) % VLUnit) > VLUnit
    /\ word_count < PyRound(video_length * WordsPerMinute, VLUnit)

(* C6 *)

\* C6 as stated: both language-model calls use the api_key argument whenever one
\* is passed and DEEPSEEK_API_KEY otherwise, the setting is read only when no
\* argument is passed, and both calls use the same credential and the
\* temperature creativity.
C6_Original ==
    /\ envRead => api_key_arg = None
    /\ \A i \in CallsOf("llm") :
        /\ calls[i].credential = (IF api_key_arg /= None THEN api_key_arg ELSE env_key)
        /\ calls[i].temperature = creativity
        /\ calls[i].credential = calls[1].credential

\* C6 amended: both language-model calls use the api_key argument when a
\* non-empty one is passed and DEEPSEEK_API_KEY otherwise (an empty-string
\* argument counts as none); the setting is read exactly when the argument is
\* absent or empty; both calls use the same credential and the temperature
\* creativity.
C6_CredentialResolution ==
    LET given == api_key_arg /= None /\ api_key_arg /= << >>
    IN  /\ pc /= "check" => (envRead <=> ~given)
        /\ \A i \in CallsOf("llm") :
            /\ calls[i].credential = (IF given THEN api_key_arg ELSE env_key)
            /\ calls[i].temperature = creativity
            /\ \A j \in CallsOf("llm") :
                /\ calls[j].credential = calls[i].credential
                /\ calls[j].temperature = calls[i].temperature

C6_Witness ==
    /\ Cardinality(CallsOf("llm")) = 2
    /\ api_key_arg = <<"k">>
    /\ env_key = <<"e">>
    /\ calls[3].credential = <<"k">>
    /\ ~envRead

(* C7 *)

\* C7: title and script are the raw provider outputs without their leading and
\* trailing whitespace (the interior untouched) and have no whitespace at either
\* end; the returned tuple carries them, and the script prompt carries the
\* trimmed title.
C7_OutputsTrimmed ==
    /\ rawTitle /= None => IsTrimOf(title, rawTitle)
    /\ rawScript /= None => IsTrimOf(script, rawScript)
    /\ pc = "returned" =>
        /\ IsTrimOf(result[2], rawTitle)
        /\ IsTrimOf(result[3], rawScript)
    /\ \A i \in CallsAt("script") :
        rawTitle /= None /\ IsTrimOf(calls[i].prompt.title, rawTitle)

C7_Witness ==
    /\ pc = "returned"
    /\ rawTitle = <<" ", "a", " ">>
    /\ result[2] = <<"a">>
    /\ rawScript = <<"a", " ", "a">>
    /\ result[3] = rawScript

(* C8 *)

\* C8: the calls are issued in the order title, research, script; the research
\* call is issued only after the title call returned, the script call only after
\* the title call returned and the research step ended, and at most one call
\* (the last one issued) is awaiting its response.
C8_StrictlySequential ==
    /\ Len(calls) <= 3
    /\ \A i \in 1..Len(calls) : calls[i].stage = <<"title", "research", "script">>[i]
    /\ CallsAt("research") /= {} => rawTitle /= None
    /\ CallsAt("script") /= {} => (rawTitle /= None /\ wikiOutcome.kind /= "none")
    /\ Cardinality(inflight) <= 1
    /\ inflight \subseteq {Len(calls)}

C8_Witness == Len(calls) = 3 /\ inflight = {3}

(* C9 *)

\* C9: a failed title or script call ends the invocation with the provider's
\* exception and no returned value; no text stands in for the missing output (a
\* title or script exists only if its call returned one); no stage is called
\* twice; after a failed title call no research and no script call is issued.
C9_LlmFailureFatal ==
    /\ error.stage \in {"title", "script"} =>
        /\ pc = "raised"
        /\ error.kind = GenerationError
        /\ result = << >>
        /\ inflight = {}
    /\ error.stage = "title" =>
        /\ title = None
        /\ Len(calls) = 1
        /\ CallsAt("research") = {} /\ CallsAt("script") = {}
    /\ error.stage = "script" => script = None
    /\ title /= None => rawTitle /= None
    /\ script /= None => rawScript /= None
    /\ \A st \in {"title", "research", "script"} : Cardinality(CallsAt(st)) <= 1

C9_Witness ==
    /\ pc = "raised"
    /\ error = [kind |-> GenerationError, stage |-> "title"]
    /\ Len(calls) = 1

(* C10 *)

\* C10 as stated: an invocation that passed the credential check ends with two
\* or three calls issued, one or two to the language model and one to the
\* encyclopedia; a returning one with exactly two and one.
C10_Original ==
    (Finished /\ error.stage /= "check") =>
        /\ Len(calls) \in {2, 3}
        /\ Cardinality(CallsOf("llm")) \in {1, 2}
        /\ Cardinality(CallsOf("wikipedia")) = 1
        /\ pc = "returned" =>
            (Cardinality(CallsOf("llm")) = 2 /\ Cardinality(CallsOf("wikipedia")) = 1)

\* C10 amended: an invocation that passed the credential check ends with one or
\* three calls issued: exactly one language-model call and no encyclopedia call
\* when the title call failed, exactly two language-model calls and one
\* encyclopedia call otherwise (a returning invocation included); at no time are
\* more than two language-model calls or more than one encyclopedia call issued.
C10_CallCounts ==
    /\ Cardinality(CallsOf("llm")) <= 2
    /\ Cardinality(CallsOf("wikipedia")) <= 1
    /\ Len(calls) = Cardinality(CallsOf("llm")) + Cardinality(CallsOf("wikipedia"))
    /\ (Finished /\ error.stage /= "check") =>
        IF error.stage = "title"
        THEN Cardinality(CallsOf("llm")) = 1 /\ Cardinality(CallsOf("wikipedia")) = 0
        ELSE Cardinality(CallsOf("llm")) = 2 /\ Cardinality(CallsOf("wikipedia")) = 1

C10_Witness ==
    /\ pc = "raised"
    /\ error.stage = "title"
    /\ Cardinality(CallsOf("llm")) = 1
    /\ Cardinality(CallsOf("wikipedia")) = 0

====
